---- MODULE Spec2Model ----
(***************************************************************************)
(* Model of database_records.py: the record decoders of the Dexcom        *)
(* receiver database pages.  A page buffer holds back-to-back records; a   *)
(* record class decodes the record at an index (Create), verifies its      *)
(* CRC and exposes fields through properties and to_dict().                *)
(*                                                                         *)
(* Conventions of the model                                                *)
(*  - a byte is an integer 0..255, a buffer a sequence of bytes;           *)
(*  - a 16-bit field is an integer; a 32-bit unsigned field is held as     *)
(*    the record [hi, lo] of its two 16-bit halves, because the model      *)
(*    checker's integers are 32-bit signed and 0xFFFFFFFF does not fit;    *)
(*  - a double is held as its sign, exponent and fraction bits;            *)
(*  - Python None is the string "None"; an exception is its type name.     *)
(***************************************************************************)
EXTENDS Integers, Sequences, FiniteSets, TLC

\* ------------------------------------------------------------------------
\* Bounds of the model
\* ------------------------------------------------------------------------
\* number of back-to-back records the page buffer holds
NumRecords == 2

\* ------------------------------------------------------------------------
\* Bit arithmetic on non-negative integers
\* ------------------------------------------------------------------------
RECURSIVE Xor(_, _)
Xor(a, b) ==
  IF a = 0 THEN b
  ELSE IF b = 0 THEN a
  ELSE ((a + b) % 2) + 2 * Xor(a \div 2, b \div 2)

RECURSIVE BitAnd(_, _)
BitAnd(a, b) ==
  IF a = 0 \/ b = 0 THEN 0
  ELSE ((a % 2) * (b % 2)) + 2 * BitAnd(a \div 2, b \div 2)

Min(a, b) == IF a < b THEN a ELSE b

Max(a, b) == IF a > b THEN a ELSE b

\* Python slice s[a:b] (offsets are 0-based, b exclusive): a negative bound
\* counts from the end, out-of-range bounds are clipped, never an error.
Clip(n, i) == IF i < 0 THEN Max(n + i, 0) ELSE Min(i, n)
Slice(s, a, b) == SubSeq(s, Clip(Len(s), a) + 1, Clip(Len(s), b))

\* s[:-2] and s[-2:]
AllButLast2(s) == Slice(s, 0, -2)
Last2(s) == Slice(s, -2, Len(s))

\* ------------------------------------------------------------------------
\* 32-bit unsigned values as two 16-bit halves
\* ------------------------------------------------------------------------
U32(h, l) == [hi |-> h, lo |-> l]

\* x & m on 32-bit values
And32(x, m) == U32(BitAnd(x.hi, m.hi), BitAnd(x.lo, m.lo))

\* a 32-bit value below 2^31 as an integer
ToInt(x) == x.hi * 65536 + x.lo

\* (x >> 8) & 0xffffff : the three high bytes, returned as an integer
ShiftRight8Mask24(x) == BitAnd(x.hi * 256 + (x.lo \div 256), 16777215)

\* x & 0xff
MaskLow8(x) == BitAnd(x.lo, 255)

\* ------------------------------------------------------------------------
\* crc16.crc16 : table driven CRC-16 (polynomial 0x1021, initial value 0)
\* ------------------------------------------------------------------------
RECURSIVE CrcShift(_, _)
CrcShift(v, n) ==
  IF n = 0 THEN v
  ELSE CrcShift(IF v >= 32768 THEN Xor((v * 2) % 65536, 4129) ELSE v * 2, n - 1)

TABLE == [i \in 0..255 |-> CrcShift(i * 256, 8)]

\* one iteration of the loop: the CRC after byte b
CrcStep(num, b) ==
  Xor((num * 256) % 65536, TABLE[Xor(num \div 256, b)])

\* the loop over buf[lo..hi] (1-based, inclusive), left to right, from the
\* running value num; the range is halved, and the value after the first
\* half evaluated before the second half starts, only to bound the depth of
\* the evaluation (a CRC is never negative)
RECURSIVE CrcLoop(_, _, _, _)
CrcLoop(buf, lo, hi, num) ==
  IF lo > hi THEN num
  ELSE IF lo = hi THEN CrcStep(num, buf[lo])
  ELSE LET mid == (lo + hi) \div 2
           left == CrcLoop(buf, lo, mid, num)
       IN IF left >= 0 THEN CrcLoop(buf, mid + 1, hi, left) ELSE 0

crc16(buf) == CrcLoop(buf, 1, Len(buf), 0)

\* ------------------------------------------------------------------------
\* util.ReceiverTimeToTime : BASE_TIME + timedelta(seconds = secs).
\* The result is the (days, seconds) pair of the timedelta added to the
\* fixed epoch; secs = hi * 65536 + lo is divided by 86400 = 128 * 675
\* without ever forming the 32-bit number.
\* ------------------------------------------------------------------------
ReceiverTimeToTime(secs) ==
  LET q128 == secs.hi * 512 + (secs.lo \div 128)
      r128 == secs.lo % 128
  IN [days |-> q128 \div 675, seconds |-> (q128 % 675) * 128 + r128]

\* datetime.isoformat(): the textual rendering of a calendar time
isoformat(t) == [iso |-> <<t.days, t.seconds \div 3600,
                          (t.seconds % 3600) \div 60, t.seconds % 60>>]

\* ------------------------------------------------------------------------
\* struct : layout descriptors.  A format string such as '<3IBH' is the
\* sequence of its (count, code) items; '<' (little-endian, no padding) is
\* common to all formats of the module.
\* ------------------------------------------------------------------------
CodeSize(code) ==
  CASE code = "I" -> 4
    [] code \in {"H", "h"} -> 2
    [] code \in {"B", "b", "c", "s"} -> 1
    [] code = "d" -> 8

RECURSIVE calcsize(_)
calcsize(items) ==
  IF items = <<>> THEN 0
  ELSE Head(items)[1] * CodeSize(Head(items)[2]) + calcsize(Tail(items))

\* one field of the given code from its little-endian bytes
DecodeField(code, b) ==
  CASE code = "I" -> U32(b[4] * 256 + b[3], b[2] * 256 + b[1])
    [] code = "H" -> b[2] * 256 + b[1]
    [] code = "h" -> LET u == b[2] * 256 + b[1]
                     IN IF u >= 32768 THEN u - 65536 ELSE u
    [] code = "B" -> b[1]
    [] code = "b" -> IF b[1] >= 128 THEN b[1] - 256 ELSE b[1]
    [] code = "c" -> <<b[1]>>
    [] code = "d" -> [sign |-> b[8] \div 128,
                      exponent |-> (b[8] % 128) * 16 + (b[7] \div 16),
                      fraction |-> <<b[7] % 16, b[6], b[5], b[4], b[3], b[2], b[1]>>]

RECURSIVE UnpackItems(_, _, _)
UnpackItems(items, raw, off) ==
  IF items = <<>> THEN <<>>
  ELSE LET cnt == Head(items)[1]
           code == Head(items)[2]
       IN IF code = "s"
          THEN <<SubSeq(raw, off + 1, off + cnt)>>
               \o UnpackItems(Tail(items), raw, off + cnt)
          ELSE IF cnt = 0
          THEN UnpackItems(Tail(items), raw, off)
          ELSE <<DecodeField(code, SubSeq(raw, off + 1, off + CodeSize(code)))>>
               \o UnpackItems(<< <<cnt - 1, code>> >> \o Tail(items), raw,
                              off + CodeSize(code))

\* struct.Struct(fmt).unpack(raw): struct.error unless raw has exactly the
\* size of the layout
unpack(items, raw) ==
  IF Len(raw) # calcsize(items)
  THEN [exc |-> "struct.error", val |-> <<>>]
  ELSE [exc |-> "", val |-> UnpackItems(items, raw, 0)]

\* ------------------------------------------------------------------------
\* The record classes
\* ------------------------------------------------------------------------
Classes ==
  {"BaseDatabaseRecord", "GenericTimestampedRecord", "GenericXMLRecord",
   "InsertionRecord", "G5InsertionRecord", "G5UserSettings", "G6UserSettings",
   "Calibration", "LegacyCalibration", "SubCal", "MeterRecord",
   "G5MeterRecord", "EventRecord", "SensorRecord", "EGVRecord",
   "G5EGVRecord", "G6EGVRecord"}

\* the base class of each class
Parent ==
  [c \in Classes |->
     CASE c = "BaseDatabaseRecord" -> "object"
       [] c = "GenericTimestampedRecord" -> "BaseDatabaseRecord"
       [] c = "G5InsertionRecord" -> "InsertionRecord"
       [] c = "LegacyCalibration" -> "Calibration"
       [] c = "G5EGVRecord" -> "EGVRecord"
       [] c = "G6EGVRecord" -> "G5EGVRecord"
       [] OTHER -> "GenericTimestampedRecord"]

\* the FORMAT attribute each class body assigns; isNone is FORMAT = None
OwnFORMAT ==
  [BaseDatabaseRecord |-> [isNone |-> TRUE, items |-> <<>>],
   GenericXMLRecord |-> [isNone |-> FALSE,
      items |-> << <<2, "I">>, <<490, "s">>, <<1, "H">> >>],
   InsertionRecord |-> [isNone |-> FALSE,
      items |-> << <<3, "I">>, <<1, "B">>, <<1, "H">> >>],
   G5InsertionRecord |-> [isNone |-> FALSE,
      items |-> << <<3, "I">>, <<1, "B">>, <<1, "I">>, <<6, "s">>, <<1, "H">> >>],
   G5UserSettings |-> [isNone |-> FALSE,
      items |-> << <<4, "I">>, <<6, "s">>, <<1, "I">>, <<8, "H">>, <<1, "B">>,
                   <<1, "B">>, <<1, "I">>, <<1, "H">> >>],
   G6UserSettings |-> [isNone |-> FALSE,
      items |-> << <<4, "I">>, <<6, "s">>, <<1, "I">>, <<8, "H">>, <<1, "B">>,
                   <<1, "B">>, <<1, "H">>, <<1, "B">>, <<4, "s">>, <<7, "B">>,
                   <<1, "H">> >>],
   Calibration |-> [isNone |-> FALSE,
      items |-> << <<2, "I">>, <<1, "d">>, <<1, "d">>, <<1, "d">>, <<3, "c">>,
                   <<1, "d">>, <<1, "b">> >>],
   SubCal |-> [isNone |-> FALSE,
      items |-> << <<1, "I">>, <<1, "I">>, <<1, "I">>, <<1, "I">>, <<1, "c">> >>],
   MeterRecord |-> [isNone |-> FALSE,
      items |-> << <<2, "I">>, <<1, "H">>, <<1, "I">>, <<1, "H">> >>],
   G5MeterRecord |-> [isNone |-> FALSE,
      items |-> << <<2, "I">>, <<1, "H">>, <<1, "B">>, <<1, "I">>, <<1, "I">>,
                   <<1, "H">> >>],
   EventRecord |-> [isNone |-> FALSE,
      items |-> << <<2, "I">>, <<2, "B">>, <<2, "I">>, <<1, "H">> >>],
   SensorRecord |-> [isNone |-> FALSE,
      items |-> << <<2, "I">>, <<1, "I">>, <<1, "I">>, <<1, "h">>, <<1, "H">> >>],
   EGVRecord |-> [isNone |-> FALSE,
      items |-> << <<2, "I">>, <<1, "H">>, <<1, "B">>, <<1, "H">> >>],
   G5EGVRecord |-> [isNone |-> FALSE,
      items |-> << <<2, "I">>, <<1, "H">>, <<1, "I">>, <<1, "B">>, <<1, "I">>,
                   <<1, "B">>, <<1, "B">>, <<1, "H">>, <<1, "H">> >>],
   G6EGVRecord |-> [isNone |-> FALSE,
      items |-> << <<2, "I">>, <<1, "H">>, <<1, "I">>, <<1, "B">>, <<1, "I">>,
                   <<1, "B">>, <<1, "B">>, <<1, "H">>, <<1, "H">> >>]]

\* cls.FORMAT : the attribute found along the inheritance chain
RECURSIVE FORMAT(_)
FORMAT(cls) ==
  IF cls \in DOMAIN OwnFORMAT THEN OwnFORMAT[cls] ELSE FORMAT(Parent[cls])

OwnFIELDS ==
  [GenericTimestampedRecord |-> <<>>,
   InsertionRecord |-> <<"insertion_time", "session_state">>,
   Calibration |-> <<"slope", "intercept", "scale", "decay", "numsub", "raw">>,
   SubCal |-> <<"entered", "meter", "sensor", "applied">>,
   MeterRecord |-> <<"calib_gluc", "meter_time">>,
   G5MeterRecord |-> <<"calib_gluc", "record_type", "meter_time", "xx_testNum">>,
   EventRecord |-> <<"event_type", "event_sub_type", "event_value">>,
   SensorRecord |-> <<"unfiltered", "filtered", "rssi">>,
   EGVRecord |-> <<"glucose", "trend_arrow">>]

\* cls.FIELDS : the attribute found along the inheritance chain, as
\* [exc, val]; AttributeError when no class of the chain assigns it
RECURSIVE FIELDS(_)
FIELDS(cls) ==
  IF cls = "object" THEN [exc |-> "AttributeError", val |-> <<>>]
  ELSE IF cls \in DOMAIN OwnFIELDS THEN [exc |-> "", val |-> OwnFIELDS[cls]]
  ELSE FIELDS(Parent[cls])

OwnBASE_FIELDS ==
  [GenericTimestampedRecord |-> <<"system_time", "display_time">>,
   SubCal |-> <<>>]

\* cls.BASE_FIELDS : likewise; BaseDatabaseRecord has none
RECURSIVE BASE_FIELDS(_)
BASE_FIELDS(cls) ==
  IF cls = "object" THEN [exc |-> "AttributeError", val |-> <<>>]
  ELSE IF cls \in DOMAIN OwnBASE_FIELDS
  THEN [exc |-> "", val |-> OwnBASE_FIELDS[cls]]
  ELSE BASE_FIELDS(Parent[cls])

\* module and class constants
EGV_TESTNUM_MASK == U32(255, 65535)
LEGACY_SIZE == 148
REV_2_SIZE == 249

\* variant of _CheckFormat that accepts every class
_CheckFormat_Skip(cls) == FALSE

\* BaseDatabaseRecord._CheckFormat : TRUE when it raises NotImplementedError
_CheckFormat(cls) == FORMAT(cls).isNone \/ FORMAT(cls).items = <<>>

\* BaseDatabaseRecord._ClassFormat, as [exc, items] : _CheckFormat, then
\* struct.Struct(cls.FORMAT), which rejects None with TypeError
_ClassFormat(cls) ==
  IF _CheckFormat(cls) THEN [exc |-> "NotImplementedError", items |-> <<>>]
  ELSE IF FORMAT(cls).isNone THEN [exc |-> "TypeError", items |-> <<>>]
  ELSE [exc |-> "", items |-> FORMAT(cls).items]

IsCalibration(cls) == cls \in {"Calibration", "LegacyCalibration"}

\* _ClassSize, as [exc, val] : BaseDatabaseRecord's is the size of
\* _ClassFormat() and raises what that raises; Calibration's and
\* LegacyCalibration's return a constant
_ClassSize(cls) ==
  CASE cls = "LegacyCalibration" -> [exc |-> "", val |-> LEGACY_SIZE]
    [] cls = "Calibration" -> [exc |-> "", val |-> REV_2_SIZE]
    [] OTHER -> LET fmt == _ClassFormat(cls)
                IN [exc |-> fmt.exc, val |-> calcsize(fmt.items)]

\* ------------------------------------------------------------------------
\* Properties.  The outcome of reading an attribute is [exc, val, dt]:
\* exc is the exception raised ("" for none), val the value and dt tells
\* whether the value is a datetime (has isoformat).
\* ------------------------------------------------------------------------
Val(v) == [exc |-> "", val |-> v, dt |-> FALSE]
Time(v) == [exc |-> "", val |-> v, dt |-> TRUE]
Raise(e) == [exc |-> e, val |-> "None", dt |-> FALSE]

\* a property that returns the result r of a call: its value, or the
\* exception the call raised
Outcome(r) == IF r.exc # "" THEN Raise(r.exc) ELSE Val(r.val)

\* list[i] for i >= 0
Index(list, i) ==
  IF i < Len(list) THEN Val(list[i + 1]) ELSE Raise("IndexError")

\* self.data[k]
D(self, k) == self.data[k + 1]

\* binascii.hexlify : two hexadecimal digits per byte
hexlify(b) ==
  [i \in 1..(2 * Len(b)) |->
     IF i % 2 = 1 THEN b[(i + 1) \div 2] \div 16 ELSE b[i \div 2] % 16]

\* value / 100.0 of a 32-bit value, as whole part and hundredths
Div100(x) ==
  LET rest == (x.hi % 100) * 65536 + x.lo
  IN [whole |-> (x.hi \div 100) * 65536 + (rest \div 100),
      hundredths |-> rest % 100]

\* constants.py
EGV_VALUE_MASK == 1023
EGV_DISPLAY_ONLY_MASK == 32768
EGV_TREND_ARROW_MASK == 15
SPECIAL_GLUCOSE_VALUES ==
  [g \in {0, 1, 2, 3, 5, 6, 9, 10, 12} |->
     CASE g = 0 -> "None"
       [] g = 1 -> "SENSOR_NOT_ACTIVE"
       [] g = 2 -> "MINIMAL_DEVIATION"
       [] g = 3 -> "NO_ANTENNA"
       [] g = 5 -> "SENSOR_NOT_CALIBRATED"
       [] g = 6 -> "COUNTS_DEVIATION"
       [] g = 9 -> "ABSOLUTE_DEVIATION"
       [] g = 10 -> "POWER_DEVIATION"
       [] g = 12 -> "BAD_RF"]
TREND_ARROW_VALUES ==
  <<"None", "DOUBLE_UP", "SINGLE_UP", "45_UP", "FLAT", "45_DOWN",
    "SINGLE_DOWN", "DOUBLE_DOWN", "NOT_COMPUTABLE", "OUT_OF_RANGE">>

\* the lookup tables of the enumerated fields
states ==
  <<"None", "REMOVED", "EXPIRED", "RESIDUAL_DEVIATION", "COUNTS_DEVIATION",
    "SECOND_SESSION", "OFF_TIME_LOSS", "STARTED", "BAD_TRANSMITTER",
    "MANUFACTURING_MODE", "UNKNOWN1", "UNKNOWN2", "UNKNOWN3", "UNKNOWN4",
    "UNKNOWN5", "UNKNOWN6", "UNKNOWN7", "UNKNOWN8">>
event_types == <<"None", "CARBS", "INSULIN", "HEALTH", "EXCERCISE", "MAX_VALUE">>
subtypes ==
  [INSULIN |-> <<"None", "FAST", "LONG">>,
   HEALTH |-> <<"None", "ILLNESS", "STRESS", "HIGH_SYMPTOMS", "LOW_SYMTOMS",
                "CYCLE", "ALCOHOL">>,
   EXCERCISE |-> <<"None", "LIGHT", "MEDIUM", "HEAVY", "MAX_VALUE">>]

\* the properties each class body defines
UserSettingsProps ==
  {"transmitterPaired", "highAlert", "highRepeat", "lowAlert", "lowRepeat",
   "riseRate", "fallRate", "outOfRangeAlert", "soundsType"}

OwnProps ==
  [c \in Classes |->
     CASE c = "BaseDatabaseRecord" -> {"FMT", "SIZE", "crc"}
       [] c = "GenericTimestampedRecord" ->
            {"system_time", "display_time", "system_secs", "display_secs"}
       [] c = "GenericXMLRecord" -> {"xmldata"}
       [] c = "InsertionRecord" ->
            {"insertion_time", "insertion_secs", "session_state", "state_value"}
       [] c = "G5InsertionRecord" -> {"number", "transmitterPaired"}
       [] c = "G5UserSettings" -> UserSettingsProps
       [] c = "G6UserSettings" ->
            UserSettingsProps \cup {"urgentLowSoonRepeat", "sensorCode"}
       [] c = "Calibration" ->
            {"raw", "slope", "intercept", "scale", "decay", "numsub", "crc"}
       [] c = "SubCal" -> {"entered", "meter", "sensor", "applied"}
       [] c = "MeterRecord" ->
            {"calib_gluc", "meter_secs", "meter_time", "record_type",
             "xx_testNum", "xx", "testNum"}
       [] c = "G5MeterRecord" ->
            {"calib_gluc", "record_type", "meter_secs", "xx_testNum", "xx",
             "testNum"}
       [] c = "EventRecord" ->
            {"event_type", "event_sub_type", "display_time", "event_value",
             "int_type", "int_sub_type", "meter_secs", "int_value"}
       [] c = "SensorRecord" -> {"unfiltered", "filtered", "rssi"}
       [] c = "EGVRecord" ->
            {"full_glucose", "full_trend", "display_only", "glucose",
             "glucose_special_meaning", "is_special", "testNum", "trend_arrow"}
       [] c = "G5EGVRecord" -> {"testNum", "full_trend", "realtime"}
       [] OTHER -> {}]

\* the class whose definition of the attribute an instance of cls uses
\* ("" when no class of the chain defines it)
RECURSIVE Resolve(_, _)
Resolve(cls, name) ==
  IF cls = "object" THEN ""
  ELSE IF name \in OwnProps[cls] THEN cls
  ELSE Resolve(Parent[cls], name)

\* GenericTimestampedRecord
system_time(self) == Time(ReceiverTimeToTime(D(self, 0)))
display_time(self) == Time(ReceiverTimeToTime(D(self, 1)))
system_secs(self) == Val(D(self, 0))
display_secs(self) == Val(D(self, 1))

\* G5EGVRecord.testNum
G5EGV_testNum(self) == Val(ToInt(And32(D(self, 5), EGV_TESTNUM_MASK)))

\* G5MeterRecord.xx
G5Meter_xx(self) == Val(MaskLow8(D(self, 5)))

\* variant of G5MeterRecord.testNum that masks like G5EGVRecord.testNum
G5Meter_testNum_LowMask(self) ==
  Val(ToInt(And32(D(self, 5), EGV_TESTNUM_MASK)))

\* G5MeterRecord.testNum
G5Meter_testNum(self) == Val(ShiftRight8Mask24(D(self, 5)))

\* variant of EventRecord.display_time without the override
Event_display_time_Inherited(self) == Time(ReceiverTimeToTime(D(self, 1)))

\* EventRecord.display_time
Event_display_time(self) == Time(ReceiverTimeToTime(D(self, 4)))

\* InsertionRecord.session_state, EventRecord.event_type
session_state(self) == Index(states, D(self, 3))
event_type(self) == Index(event_types, D(self, 2))

RECURSIVE GetAttr(_, _)

\* variant of insertion_time that converts the field whatever it holds
insertion_time_NoSentinel(self) == Time(ReceiverTimeToTime(D(self, 2)))

\* InsertionRecord.insertion_time
insertion_time(self) ==
  IF D(self, 2) = U32(65535, 65535)
  THEN system_time(self)
  ELSE Time(ReceiverTimeToTime(D(self, 2)))

\* EventRecord.event_sub_type
event_sub_type(self) ==
  LET t == event_type(self)
  IN IF t.exc # "" THEN t
     ELSE IF t.val \in DOMAIN subtypes
     THEN Index(subtypes[t.val], D(self, 3))
     ELSE Val("None")

\* EventRecord.event_value
event_value(self) ==
  LET t == event_type(self)
  IN IF t.exc # "" THEN t
     ELSE IF t.val = "INSULIN" THEN Val(Div100(D(self, 5)))
     ELSE Val(D(self, 5))

\* EGVRecord.full_glucose, display_only, glucose, glucose_special_meaning,
\* is_special; no subclass overrides an attribute these read
full_glucose(self) == Val(D(self, 2))

display_only(self) ==
  Val(BitAnd(full_glucose(self).val, EGV_DISPLAY_ONLY_MASK) # 0)

glucose(self) == Val(BitAnd(full_glucose(self).val, EGV_VALUE_MASK))

glucose_special_meaning(self) ==
  LET g == glucose(self).val
  IN IF g \in DOMAIN SPECIAL_GLUCOSE_VALUES
     THEN Val(SPECIAL_GLUCOSE_VALUES[g])
     ELSE Val("None")

is_special(self) == Val(glucose_special_meaning(self).val # "None")

\* EGVRecord.trend_arrow : self.full_trend is the subclass's where
\* G5EGVRecord overrides it
trend_arrow(self) ==
  Index(TREND_ARROW_VALUES,
        BitAnd(GetAttr(self, "full_trend").val, EGV_TREND_ARROW_MASK))

\* BaseDatabaseRecord.crc : self.data[-1]
Base_crc(self) ==
  IF self.data = <<>> THEN Raise("IndexError")
  ELSE Val(self.data[Len(self.data)])

\* BaseDatabaseRecord.FMT : after self._CheckFormat() the body calls
\* _ClassFormat as a global name, which the module does not define
Base_FMT(self) ==
  IF _CheckFormat(self.cls) THEN Raise("NotImplementedError")
  ELSE Raise("NameError")

\* BaseDatabaseRecord.SIZE : self._ClassSize()
Base_SIZE(self) == Outcome(_ClassSize(self.cls))

\* the body of property `name' as class d defines it
Prop(d, name, self) ==
  CASE d = "BaseDatabaseRecord" ->
         (CASE name = "FMT" -> Base_FMT(self)
            [] name = "SIZE" -> Base_SIZE(self)
            [] name = "crc" -> Base_crc(self))
    [] d = "GenericTimestampedRecord" ->
         (CASE name = "system_time" -> system_time(self)
            [] name = "display_time" -> display_time(self)
            [] name = "system_secs" -> system_secs(self)
            [] name = "display_secs" -> display_secs(self))
    [] d = "GenericXMLRecord" ->
         Val(SelectSeq(D(self, 2), LAMBDA b : b # 0))
    [] d = "InsertionRecord" ->
         (CASE name = "insertion_time" -> insertion_time(self)
            [] name = "insertion_secs" -> Val(D(self, 2))
            [] name = "session_state" -> session_state(self)
            [] name = "state_value" -> Val(D(self, 3)))
    [] d = "G5InsertionRecord" ->
         (CASE name = "number" -> Val(D(self, 4))
            [] name = "transmitterPaired" -> Val(D(self, 5)))
    [] d \in {"G5UserSettings", "G6UserSettings"} ->
         (CASE name = "transmitterPaired" -> Val(D(self, 4))
            [] name = "highAlert" -> Val(D(self, 6))
            [] name = "highRepeat" -> Val(D(self, 7))
            [] name = "lowAlert" -> Val(D(self, 8))
            [] name = "lowRepeat" -> Val(D(self, 9))
            [] name = "riseRate" -> Val(D(self, 10))
            [] name = "fallRate" -> Val(D(self, 11))
            [] name = "outOfRangeAlert" -> Val(D(self, 12))
            [] name = "soundsType" -> Val(D(self, 14))
            [] name = "urgentLowSoonRepeat" -> Val(D(self, 16))
            [] name = "sensorCode" -> Val(D(self, 18)))
    [] d = "Calibration" ->
         (CASE name = "raw" -> Val(hexlify(self.raw_data))
            [] name = "slope" -> Val(D(self, 2))
            [] name = "intercept" -> Val(D(self, 3))
            [] name = "scale" -> Val(D(self, 4))
            [] name = "decay" -> Val(D(self, 8))
            [] name = "numsub" -> Val(D(self, 9))
            [] name = "crc" ->
                 LET u == unpack(<< <<1, "H">> >>, Last2(self.raw_data))
                 IN IF u.exc # "" THEN Raise(u.exc) ELSE Val(u.val[1]))
    [] d = "SubCal" ->
         (CASE name = "entered" -> Time(ReceiverTimeToTime(D(self, 0)))
            [] name = "meter" -> Val(D(self, 1))
            [] name = "sensor" -> Val(D(self, 2))
            [] name = "applied" -> Time(ReceiverTimeToTime(D(self, 3))))
    [] d = "MeterRecord" ->
         (CASE name = "calib_gluc" -> Val(D(self, 2))
            [] name = "meter_secs" -> Val(D(self, 3))
            [] name = "meter_time" -> Time(ReceiverTimeToTime(D(self, 3)))
            [] name = "record_type" -> Val(1)
            [] name \in {"xx_testNum", "xx", "testNum"} -> Val(0))
    [] d = "G5MeterRecord" ->
         (CASE name = "calib_gluc" -> Val(D(self, 2))
            [] name = "record_type" -> Val(D(self, 3))
            [] name = "meter_secs" -> Val(D(self, 4))
            [] name = "xx_testNum" -> Val(D(self, 5))
            [] name = "xx" -> G5Meter_xx(self)
            [] name = "testNum" -> G5Meter_testNum(self))
    [] d = "EventRecord" ->
         (CASE name = "event_type" -> event_type(self)
            [] name = "event_sub_type" -> event_sub_type(self)
            [] name = "display_time" -> Event_display_time(self)
            [] name = "event_value" -> event_value(self)
            [] name = "int_type" -> Val(D(self, 2))
            [] name = "int_sub_type" -> Val(D(self, 3))
            [] name = "meter_secs" -> Val(D(self, 4))
            [] name = "int_value" -> Val(D(self, 5)))
    [] d = "SensorRecord" ->
         (CASE name = "unfiltered" -> Val(D(self, 2))
            [] name = "filtered" -> Val(D(self, 3))
            [] name = "rssi" -> Val(D(self, 4)))
    [] d = "EGVRecord" ->
         (CASE name = "full_glucose" -> full_glucose(self)
            [] name = "full_trend" -> Val(D(self, 3))
            [] name = "display_only" -> display_only(self)
            [] name = "glucose" -> glucose(self)
            [] name = "glucose_special_meaning" -> glucose_special_meaning(self)
            [] name = "is_special" -> is_special(self)
            [] name = "testNum" -> Val(0)
            [] name = "trend_arrow" -> trend_arrow(self))
    [] d = "G5EGVRecord" ->
         (CASE name = "testNum" -> G5EGV_testNum(self)
            [] name = "full_trend" -> Val(D(self, 6))
            [] name = "realtime" -> Val(D(self, 8)))

\* getattr(self, name)
GetAttr(self, name) ==
  LET d == Resolve(self.cls, name)
  IN IF d = "" THEN Raise("AttributeError") ELSE Prop(d, name, self)

\* the attributes some class defines
AllProps == UNION {OwnProps[c] : c \in Classes}

\* GenericTimestampedRecord.to_dict : the first attribute that raises ends
\* the loop; datetimes are rendered with isoformat()
RECURSIVE FirstRaise(_, _)
FirstRaise(self, keys) ==
  IF keys = <<>> THEN ""
  ELSE IF GetAttr(self, Head(keys)).exc # "" THEN GetAttr(self, Head(keys)).exc
  ELSE FirstRaise(self, Tail(keys))

Range(seq) == {seq[i] : i \in 1..Len(seq)}

to_dict(self) ==
  LET base == BASE_FIELDS(self.cls)
      own == FIELDS(self.cls)
      keys == base.val \o own.val
      e == FirstRaise(self, keys)
  IN IF base.exc # "" THEN [exc |-> base.exc, val |-> <<>>]
     ELSE IF own.exc # "" THEN [exc |-> own.exc, val |-> <<>>]
     ELSE IF e # "" THEN [exc |-> e, val |-> <<>>]
     ELSE [exc |-> "",
           val |-> [k \in Range(keys) |->
                      LET a == GetAttr(self, k)
                      IN IF a.dt THEN isoformat(a.val) ELSE a.val]]

\* Calibration.to_dict : adds the list of the sub-records' exports
Calibration_to_dict(self) ==
  LET res == to_dict(self)
  IN IF res.exc # "" THEN res
     ELSE [exc |-> "",
           val |-> [k \in DOMAIN res.val \cup {"subrecords"} |->
                      IF k = "subrecords"
                      THEN [i \in 1..Len(self.subcals) |->
                              to_dict(self.subcals[i]).val]
                      ELSE res.val[k]]]

\* ------------------------------------------------------------------------
\* Decoding.  The outcome of a constructor or of Create is
\*   ret        the record returned (NoRecord when an exception is raised)
\*   exc, msg   the exception raised ("" for none) and its message
\*   steps      the operations performed, in order
\*   crc_input  the bytes handed to crc16 (<<>> when it was not called)
\* ------------------------------------------------------------------------
NoRecord == [cls |-> "None", raw_data |-> <<>>, data |-> <<>>, subcals |-> <<>>]

Failure(e, m, st, ci) ==
  [ret |-> NoRecord, exc |-> e, msg |-> m, steps |-> st, crc_input |-> ci]

\* variant of CrcSpan that ends a Calibration's span with its last sub-record
CrcSpan_HeaderAndSubs(self) ==
  IF IsCalibration(self.cls)
  THEN Slice(self.raw_data, 0,
             calcsize(FORMAT(self.cls).items)
               + Max(D(self, 9), 0) * calcsize(FORMAT("SubCal").items))
  ELSE AllButLast2(self.raw_data)

\* the bytes calculate_crc hands to crc16 : self.raw_data[:-2]
CrcSpan(self) == AllButLast2(self.raw_data)

\* BaseDatabaseRecord.calculate_crc
calculate_crc(self) == crc16(CrcSpan(self))

\* variant of check_crc that accepts every checksum
check_crc_NoCompare(self) ==
  LET crc == GetAttr(self, "crc")
  IN IF crc.exc # "" THEN crc.exc ELSE ""

\* BaseDatabaseRecord.check_crc : the exception it ends with ("" for none);
\* the CRC is calculated first, then compared with the crc property
check_crc(self) ==
  LET local_crc == calculate_crc(self)
      crc == GetAttr(self, "crc")
  IN IF crc.exc # "" THEN crc.exc
     ELSE IF local_crc # crc.val THEN "CrcError"
     ELSE ""

\* the outcome of a constructor that ends with self.check_crc()
Checked(self, st) ==
  LET e == check_crc(self)
      done == st \o <<"calculate_crc", "crc">>
  IN IF e = "CrcError"
     THEN Failure("CrcError", <<"Could not parse", self.cls>>, done,
                  CrcSpan(self))
     ELSE IF e # "" THEN Failure(e, <<>>, done, CrcSpan(self))
     ELSE [ret |-> self, exc |-> "", msg |-> <<>>, steps |-> done,
           crc_input |-> CrcSpan(self)]

\* BaseDatabaseRecord.__init__
Base__init__(cls, data, raw_data, st) ==
  Checked([cls |-> cls, raw_data |-> raw_data, data |-> data,
           subcals |-> <<>>], st)

\* variant of RecordOffset that leaves the checksum bytes out of the stride
RecordOffset_ShortStride(cls, record_counter) ==
  record_counter * (_ClassSize(cls).val - 2)

\* the byte offset of record number record_counter
RecordOffset(cls, record_counter) == record_counter * _ClassSize(cls).val

\* BaseDatabaseRecord.Create
Base_Create(cls, data, record_counter) ==
  LET size == _ClassSize(cls)
  IN IF size.exc = "NotImplementedError"
     THEN Failure("NotImplementedError",
                  <<"Subclasses need to define FORMAT", cls>>,
                  <<"_CheckFormat">>, <<>>)
     ELSE IF size.exc # ""
     THEN Failure(size.exc, <<>>, <<"_CheckFormat", "Struct">>, <<>>)
     ELSE
       LET offset == RecordOffset(cls, record_counter)
           raw_data == Slice(data, offset, offset + size.val)
           unpacked == unpack(_ClassFormat(cls).items, raw_data)
           st == <<"_CheckFormat", "Struct", "slice raw_data", "unpack">>
       IN IF unpacked.exc # ""
          THEN Failure(unpacked.exc, <<>>, st, <<>>)
          ELSE Base__init__(cls, unpacked.val, raw_data, st)

\* SubCal.__init__
SubCal__init__(raw_data, displayOffset) ==
  LET u == unpack(FORMAT("SubCal").items, raw_data)
  IN [exc |-> u.exc,
      ret |-> [cls |-> "SubCal", raw_data |-> raw_data, data |-> u.val,
               displayOffset |-> displayOffset]]

\* variant of DecodeSubCals whose loop stops one sub-record early
RECURSIVE DecodeSubCals_OneShort(_, _, _, _, _)
DecodeSubCals_OneShort(subdata, subsize, numsub, displayOffset, i) ==
  IF i >= numsub - 1 THEN [exc |-> "", subcals |-> <<>>]
  ELSE LET offset == i * subsize
           raw_sub == Slice(subdata, offset, offset + subsize)
           sub == SubCal__init__(raw_sub, displayOffset)
       IN IF sub.exc # "" THEN [exc |-> sub.exc, subcals |-> <<>>]
          ELSE LET rest == DecodeSubCals_OneShort(subdata, subsize, numsub,
                                                  displayOffset, i + 1)
               IN [exc |-> rest.exc,
                   subcals |-> <<sub.ret>> \o rest.subcals]

\* the loop of Calibration.__init__ from sub-record i on: the sub-records
\* decoded, and the exception that ended the loop
RECURSIVE DecodeSubCals(_, _, _, _, _)
DecodeSubCals(subdata, subsize, numsub, displayOffset, i) ==
  IF i >= numsub THEN [exc |-> "", subcals |-> <<>>]
  ELSE LET offset == i * subsize
           raw_sub == Slice(subdata, offset, offset + subsize)
           sub == SubCal__init__(raw_sub, displayOffset)
       IN IF sub.exc # "" THEN [exc |-> sub.exc, subcals |-> <<>>]
          ELSE LET rest == DecodeSubCals(subdata, subsize, numsub,
                                         displayOffset, i + 1)
               IN [exc |-> rest.exc,
                   subcals |-> <<sub.ret>> \o rest.subcals]

\* the steps of the loop: one "SubCal" per constructor call, the failing
\* one included
RECURSIVE SubCalSteps(_, _, _, _)
SubCalSteps(subdata, subsize, numsub, i) ==
  IF i >= numsub THEN <<>>
  ELSE IF Len(Slice(subdata, i * subsize, i * subsize + subsize)) # subsize
  THEN <<"SubCal">>
  ELSE <<"SubCal">> \o SubCalSteps(subdata, subsize, numsub, i + 1)

\* Calibration.__init__
Calibration__init__(cls, data, raw_data, st) ==
  LET self0 == [cls |-> cls, raw_data |-> raw_data, data |-> data,
                subcals |-> <<>>]
      numsub == GetAttr(self0, "numsub").val
      subsize == calcsize(FORMAT("SubCal").items)
      offset == numsub * subsize
      calsize == calcsize(FORMAT(cls).items)
      subdata == Slice(raw_data, calsize, calsize + offset)
      loop == DecodeSubCals(subdata, subsize, numsub, D(self0, 1), 0)
      st1 == st \o <<"slice subdata">> \o SubCalSteps(subdata, subsize, numsub, 0)
  IN IF loop.exc # "" THEN Failure(loop.exc, <<>>, st1, <<>>)
     ELSE Checked([self0 EXCEPT !.subcals = loop.subcals], st1)

\* Calibration.Create
Calibration_Create(cls, data, record_counter) ==
  LET offset == RecordOffset(cls, record_counter)
      cal_size == calcsize(FORMAT(cls).items)
      raw_data == Slice(data, offset, offset + _ClassSize(cls).val)
      cal_data == Slice(data, offset, offset + cal_size)
      fmt == _ClassFormat(cls)
      unpacked == unpack(fmt.items, cal_data)
      st == <<"slice raw_data", "slice cal_data", "_CheckFormat", "Struct",
              "unpack">>
  IN IF fmt.exc = "NotImplementedError"
     THEN Failure("NotImplementedError",
                  <<"Subclasses need to define FORMAT", cls>>,
                  <<"slice raw_data", "slice cal_data", "_CheckFormat">>, <<>>)
     ELSE IF fmt.exc # ""
     THEN Failure(fmt.exc, <<>>, <<"slice raw_data", "slice cal_data",
                                   "_CheckFormat", "Struct">>, <<>>)
     ELSE IF unpacked.exc # ""
     THEN Failure(unpacked.exc, <<>>, st, <<>>)
     ELSE Calibration__init__(cls, unpacked.val, raw_data, st)

\* cls.Create(data, record_counter)
Create(cls, data, record_counter) ==
  IF IsCalibration(cls)
  THEN Calibration_Create(cls, data, record_counter)
  ELSE Base_Create(cls, data, record_counter)

\* ------------------------------------------------------------------------
\* The page buffers decoded.  The receiver writes every record with the
\* CRC of its preceding bytes in its last two bytes; a record body is a
\* filler pattern with the fields of interest patched in.
\* ------------------------------------------------------------------------
Filler(n, seed) == [i \in 1..n |-> (seed * 37 + i * 11) % 256]

RECURSIVE Patch(_, _)
Patch(body, patches) ==
  IF patches = <<>> THEN body
  ELSE LET off == Head(patches)[1]
           bytes == Head(patches)[2]
       IN Patch([i \in 1..Len(body) |->
                   IF i > off /\ i <= off + Len(bytes)
                   THEN bytes[i - off] ELSE body[i]],
                Tail(patches))

FFFF == <<255, 255, 255, 255>>

\* the field patches of the sample records of each class: <<offset, bytes>>
InsertionSamples ==
  << << <<8, FFFF>>, <<12, <<7>> >> >>,
     << <<12, <<17>> >> >>,
     << <<8, FFFF>>, <<12, <<18>> >> >>,
     << <<0, FFFF>>, <<8, FFFF>>, <<12, <<0>> >> >>,
     << <<8, <<254, 255, 255, 255>> >>, <<12, <<255>> >> >> >>

EventSamples ==
  << << <<8, <<1, 0>> >> >>,
     << <<8, <<2, 1>> >>, <<14, <<250, 0, 0, 0>> >> >>,
     << <<8, <<2, 3>> >> >>,
     << <<8, <<3, 6>> >> >>,
     << <<8, <<4, 5>> >> >>,
     << <<8, <<5, 9>> >> >>,
     << <<8, <<6, 0>> >> >>,
     << <<8, <<0, 2>> >>, <<4, <<9, 9, 9, 9>> >>, <<10, <<9, 9, 9, 9>> >> >> >>

EGVSamples ==
  << << <<8, <<100, 0, 4>> >> >>,
     << <<8, <<5, 128, 9>> >> >>,
     << <<8, <<12, 0, 10>> >> >>,
     << <<8, <<44, 1, 31>> >> >>,
     << <<8, <<1, 0, 20>> >> >> >>

G5EGVSamples ==
  << << <<8, <<100, 0>> >>, <<15, <<255, 255, 255, 18>> >>, <<19, <<4>> >> >>,
     << <<8, <<5, 128>> >>, <<15, <<5, 0, 0, 0>> >>, <<19, <<10>> >> >>,
     << <<8, <<12, 0>> >>, <<15, <<0, 0, 0, 255>> >>, <<19, <<25>> >> >>,
     << <<8, <<44, 1>> >>, <<15, <<52, 18, 0, 171>> >>, <<19, <<0>> >> >> >>

G5MeterSamples ==
  << << <<15, <<255, 255, 255, 18>> >> >>,
     << <<15, <<5, 0, 0, 0>> >> >>,
     << <<15, <<0, 0, 0, 255>> >> >>,
     << <<15, <<52, 18, 0, 171>> >> >> >>

\* the sub-record count byte of the Calibration header (a signed char)
CalibrationSamples ==
  << << <<43, <<0>> >> >>,
     << <<43, <<1>> >> >>,
     << <<43, <<6>> >> >>,
     << <<43, <<7>> >> >>,
     << <<43, <<12>> >> >>,
     << <<43, <<13>> >> >>,
     << <<43, <<127>> >> >>,
     << <<43, <<255>> >> >>,
     << <<43, <<253>> >> >>,
     << <<43, <<128>> >> >> >>

PlainSamples == << <<>>, <<>>, <<>> >>

Samples(cls) ==
  CASE cls \in {"InsertionRecord", "G5InsertionRecord"} -> InsertionSamples
    [] cls = "EventRecord" -> EventSamples
    [] cls = "EGVRecord" -> EGVSamples
    [] cls \in {"G5EGVRecord", "G6EGVRecord"} -> G5EGVSamples
    [] cls = "G5MeterRecord" -> G5MeterSamples
    [] IsCalibration(cls) -> CalibrationSamples
    [] OTHER -> PlainSamples

\* the classes a caller decodes from a page (SubCal is only ever built by
\* Calibration.__init__)
PageClasses == Classes \ {"SubCal"}

\* the size of the records the receiver wrote for a class; the two classes
\* without a layout are given pages of ten-byte records
WrittenSize(cls) == IF FORMAT(cls).isNone THEN 10 ELSE _ClassSize(cls).val

\* sample number k of a class, as the receiver writes it
WrittenRecord(cls, k) ==
  LET body == Patch(Filler(WrittenSize(cls) - 2, k), Samples(cls)[k])
      c == crc16(body)
  IN body \o <<c % 256, c \div 256>>

\* a page of n records: samples k, k+1, ... (cyclically)
RECURSIVE WrittenPage(_, _, _)
WrittenPage(cls, k, n) ==
  IF n = 0 THEN <<>>
  ELSE WrittenRecord(cls, k)
       \o WrittenPage(cls, (k % Len(Samples(cls))) + 1, n - 1)

\* the offsets within a record at which a byte may get corrupted: every
\* offset of the small records, the boundaries of the large ones
CorruptOffsets(cls) ==
  LET size == WrittenSize(cls)
  IN IF IsCalibration(cls)
     THEN {0, 43, 44, 60, 61, size - 3, size - 2, size - 1}
     ELSE IF size > 60
     THEN {0, 8, size - 3, size - 2, size - 1}
     ELSE 0..(size - 1)

\* ------------------------------------------------------------------------
\* State
\* ------------------------------------------------------------------------
VARIABLES
  cls,    \* the record class the caller decodes with
  page,   \* the page buffer
  dirty,  \* 0-based position of the page byte corrupted in transit, or -1
  out,    \* the last Create call: its record index and its outcome
  acc     \* the last attribute read or to_dict call on the returned record

vars == <<cls, page, dirty, out, acc>>

NoCall ==
  [op |-> "none", record_counter |-> -1, ret |-> NoRecord, exc |-> "",
   msg |-> <<>>, steps |-> <<>>, crc_input |-> <<>>]

NoAccess == [name |-> "", exc |-> "", val |-> "None"]

Init ==
  /\ cls \in PageClasses
  /\ \E k \in 1..Len(Samples(cls)) : page = WrittenPage(cls, k, NumRecords)
  /\ dirty = -1
  /\ out = NoCall
  /\ acc = NoAccess

\* one byte of the page is altered before any record is decoded
Corrupt(j, o) ==
  /\ dirty = -1
  /\ out.op = "none"
  /\ LET pos == j * WrittenSize(cls) + o
     IN /\ page' = [page EXCEPT ![pos + 1] = (@ + 1) % 256]
        /\ dirty' = pos
  /\ UNCHANGED <<cls, out, acc>>

\* the caller decodes record number i of the page (one call is followed:
\* decoding is a pure function of the page and the index)
Decode(i) ==
  /\ out.op = "none"
  /\ out' = [op |-> "Create", record_counter |-> i] @@ Create(cls, page, i)
  /\ acc' = NoAccess
  /\ UNCHANGED <<cls, page, dirty>>

\* the attributes a caller reads: those the classes define and those the
\* field lists name
Readable(c) ==
  {n \in AllProps : Resolve(c, n) # ""} \cup Range(BASE_FIELDS(c).val \o FIELDS(c).val)

\* the caller reads an attribute of the returned record
Get(name) ==
  /\ out.op = "Create"
  /\ out.exc = ""
  /\ acc.name = ""
  /\ name \in Readable(cls)
  /\ LET a == GetAttr(out.ret, name)
     IN acc' = [name |-> name, exc |-> a.exc, val |-> a.val]
  /\ UNCHANGED <<cls, page, dirty, out>>

\* the caller exports the returned record
ToDict ==
  /\ out.op = "Create"
  /\ out.exc = ""
  /\ acc.name = ""
  /\ LET d == IF IsCalibration(cls) THEN Calibration_to_dict(out.ret)
              ELSE to_dict(out.ret)
     IN acc' = [name |-> "to_dict", exc |-> d.exc, val |-> d.val]
  /\ UNCHANGED <<cls, page, dirty, out>>

Next ==
  \/ \E j \in 0..(NumRecords - 1) : \E o \in CorruptOffsets(cls) : Corrupt(j, o)
  \/ \E i \in 0..NumRecords : Decode(i)
  \/ \E name \in AllProps \cup {"meter_time"} : Get(name)
  \/ ToDict

Spec == Init /\ [][Next]_vars

\* ------------------------------------------------------------------------
\* Properties checked
\* ------------------------------------------------------------------------
\* the classes decoded by BaseDatabaseRecord.Create and .__init__ that
\* declare a layout
FixedClasses ==
  PageClasses \ {"BaseDatabaseRecord", "GenericTimestampedRecord",
                 "Calibration", "LegacyCalibration"}

\* a Create call has ended and nothing was read from its result yet
Decoded == out.op = "Create" /\ acc.name = ""
Returned == Decoded /\ out.exc = ""

\* the record size of the class decoded with (classes that declare a
\* layout; for the two that do not, _ClassSize raises and this is 0)
RecordSize == _ClassSize(cls).val

\* the bytes of the page that belong to record number i of the class
OwnSlice(i) ==
  SubSeq(page, i * RecordSize + 1, (i + 1) * RecordSize)

\* the last two bytes of a byte string as a little-endian 16-bit integer
Trailing16(b) == b[Len(b)] * 256 + b[Len(b) - 1]

\* the checksum over all bytes but the last two equals the last two
ChecksumMatches(b) == crc16(SubSeq(b, 1, Len(b) - 2)) = Trailing16(b)

\* the corrupted byte lies in the checksummed span of record number i
DirtyInSpan(i) ==
  /\ dirty >= i * RecordSize
  /\ dirty < (i + 1) * RecordSize - 2

\* C1: for every fixed-layout class, Create returns a record only when the
\* checksum over all bytes of the record's slice but the last two equals
\* the last two bytes read as a little-endian integer; on a mismatch, and
\* in particular after one byte of the checksummed span was corrupted, it
\* raises CrcError naming the class and returns no record.
C1_ChecksumGate ==
  (Decoded /\ cls \in FixedClasses /\ out.record_counter < NumRecords) =>
    LET own == OwnSlice(out.record_counter)
    IN /\ out.exc = "" => ChecksumMatches(own)
       /\ ~ChecksumMatches(own) =>
            /\ out.exc = "CrcError"
            /\ out.msg = <<"Could not parse", cls>>
            /\ out.ret = NoRecord
       /\ DirtyInSpan(out.record_counter) => out.exc = "CrcError"

C1_Witness ==
  /\ Decoded
  /\ cls \in FixedClasses
  /\ DirtyInSpan(out.record_counter)
  /\ out.exc = "CrcError"
  /\ out.ret = NoRecord

\* C2: for a page of NumRecords back-to-back records of a fixed-layout
\* class of size S, Create(page, i) reads exactly bytes i*S .. (i+1)*S - 1:
\* the record's raw slice is that range (so slices of different indices are
\* disjoint and cover the page), and the outcome is the one of decoding
\* that range alone, whatever the other bytes of the page hold.
C2_SliceLaw ==
  (Decoded /\ cls \in FixedClasses /\ out.record_counter < NumRecords) =>
    LET own == OwnSlice(out.record_counter)
        alone == Create(cls, own, 0)
    IN /\ Len(page) = NumRecords * RecordSize
       /\ out.exc = "" => out.ret.raw_data = own
       /\ out.exc = alone.exc
       /\ out.ret = alone.ret
       /\ out.crc_input = SubSeq(own, 1, Len(own) - 2)

C2_Witness ==
  /\ Returned
  /\ cls \in FixedClasses
  /\ out.record_counter = NumRecords - 1
  /\ out.record_counter > 0
  /\ dirty >= 0
  /\ dirty < out.record_counter * RecordSize
  /\ out.ret.raw_data = OwnSlice(out.record_counter)

\* --- Calibration records -------------------------------------------------
HeaderSize == calcsize(FORMAT("Calibration").items)
SubSize == calcsize(FORMAT("SubCal").items)

\* the sub-record count of record number i, read from the last header byte
\* as a signed char
HeaderCount(i) ==
  LET b == OwnSlice(i)[HeaderSize]
  IN IF b >= 128 THEN b - 256 ELSE b

CalReturned == out.op = "Create" /\ out.exc = "" /\ IsCalibration(cls)

\* C3 as stated: in every Calibration or LegacyCalibration record returned,
\* with k the header's sub-record count, exactly k SubCal records are
\* decoded, header and sub-records end exactly where the trailing two-byte
\* checksum field begins, and to_dict()['subrecords'] has length k.
C3_Original ==
  CalReturned =>
    LET k == HeaderCount(out.record_counter)
    IN /\ Len(out.ret.subcals) = k
       /\ HeaderSize + k * SubSize = RecordSize - 2
       /\ acc.name = "to_dict" =>
            acc.exc = "" /\ Len(acc.val["subrecords"]) = k

\* C3 amended: in every Calibration or LegacyCalibration record returned,
\* with k the header's sub-record count, max(k, 0) SubCal records are
\* decoded, the j-th from the j-th 17-byte slice after the 44-byte header;
\* header and sub-records end within the fixed-size record (not necessarily
\* where its last two bytes, the checksum field, begin), and
\* to_dict()['subrecords'] has max(k, 0) entries.
C3_SubRecordAccounting ==
  CalReturned =>
    LET k == HeaderCount(out.record_counter)
        n == Max(k, 0)
        own == OwnSlice(out.record_counter)
    IN /\ Len(out.ret.subcals) = n
       /\ \A j \in 1..n :
            out.ret.subcals[j].raw_data =
              SubSeq(own, HeaderSize + (j - 1) * SubSize + 1,
                     HeaderSize + j * SubSize)
       /\ HeaderSize + n * SubSize <= RecordSize
       /\ acc.name = "to_dict" =>
            acc.exc = "" /\ Len(acc.val["subrecords"]) = n

C3_Witness ==
  /\ CalReturned
  /\ HeaderCount(out.record_counter) >= 6
  /\ Len(out.ret.subcals) = HeaderCount(out.record_counter)
  /\ acc.name = "to_dict"
  /\ Len(acc.val["subrecords"]) = HeaderCount(out.record_counter)

\* the Calibration decode reached its checksum
CalChecksummed ==
  /\ Decoded
  /\ IsCalibration(cls)
  /\ out.record_counter < NumRecords
  /\ \E s \in 1..Len(out.steps) : out.steps[s] = "calculate_crc"

\* C4 as stated: the bytes fed to the checksum of a Calibration decode are
\* exactly the header bytes followed by the numsub sub-record bytes, this
\* being every byte of the record but its last two; on a mismatch the
\* decode fails with CrcError and returns nothing.
C4_Original ==
  CalChecksummed =>
    LET k == HeaderCount(out.record_counter)
        own == OwnSlice(out.record_counter)
    IN /\ out.crc_input = SubSeq(own, 1, HeaderSize + k * SubSize)
       /\ out.crc_input = SubSeq(own, 1, Len(own) - 2)
       /\ ~ChecksumMatches(own) => out.exc = "CrcError" /\ out.ret = NoRecord

\* C4 amended: the bytes fed to the checksum of a Calibration decode are
\* every byte of the fixed-size record (148 or 249 bytes) but its last two,
\* whatever numsub is; the checksum is computed and compared with the last
\* two bytes after the max(numsub, 0) sub-records are decoded; the decode
\* returns the record exactly when they are equal and otherwise fails with
\* CrcError naming the class, returning neither record nor sub-records.
C4_WholeRecordChecksum ==
  CalChecksummed =>
    LET k == HeaderCount(out.record_counter)
        own == OwnSlice(out.record_counter)
    IN /\ out.crc_input = SubSeq(own, 1, RecordSize - 2)
       /\ out.steps =
            <<"slice raw_data", "slice cal_data", "_CheckFormat", "Struct",
              "unpack", "slice subdata">>
            \o [j \in 1..Max(k, 0) |-> "SubCal"]
            \o <<"calculate_crc", "crc">>
       /\ ChecksumMatches(own) <=> out.exc = ""
       /\ ~ChecksumMatches(own) =>
            /\ out.exc = "CrcError"
            /\ out.msg = <<"Could not parse", cls>>
            /\ out.ret = NoRecord

\* a byte after the last sub-record, inside the checksummed span, was
\* corrupted and the decode failed with CrcError
C4_Witness ==
  /\ CalChecksummed
  /\ out.exc = "CrcError"
  /\ out.ret = NoRecord
  /\ HeaderCount(out.record_counter) >= 1
  /\ dirty >= out.record_counter * RecordSize
              + HeaderSize + HeaderCount(out.record_counter) * SubSize
  /\ dirty < (out.record_counter + 1) * RecordSize - 2

\* C5 as stated: when header size + count * sub-record size exceeds the
\* record size, the decode fails with MalformedRecord, detected before the
\* sub-record span is sliced and before any checksum is computed.
C5_Original ==
  (Decoded /\ IsCalibration(cls) /\ out.record_counter < NumRecords
     /\ HeaderSize + HeaderCount(out.record_counter) * SubSize
          > RecordSize) =>
    /\ out.exc = "MalformedRecord"
    /\ \A s \in 1..Len(out.steps) :
         out.steps[s] \notin {"slice subdata", "SubCal", "calculate_crc"}

\* --- Enumerated fields ---------------------------------------------------
EnumClasses ==
  {"InsertionRecord", "G5InsertionRecord", "EventRecord", "EGVRecord",
   "G5EGVRecord", "G6EGVRecord"}

EnumAccessors == {"session_state", "event_type", "event_sub_type", "trend_arrow"}

\* C6 as stated: whatever raw integer an enumerated field holds, the record
\* is returned, and neither the accessor of the field nor to_dict() fails
\* with an out-of-bounds error.
C6_Original ==
  (out.op = "Create" /\ out.exc = "" /\ cls \in EnumClasses
     /\ acc.name \in EnumAccessors \cup {"to_dict"}) =>
    acc.exc # "IndexError"

\* --- Field interpretation ------------------------------------------------
\* the 32-bit little-endian field at 0-based offset off of byte string b
Field32(b, off) ==
  U32(b[off + 4] * 256 + b[off + 3], b[off + 2] * 256 + b[off + 1])

Accessed(name) == out.op = "Create" /\ out.exc = "" /\ acc.name = name

\* C7: in an InsertionRecord or G5InsertionRecord whose insertion-time field
\* is 0xFFFFFFFF, insertion_time is the record's system_time and not the
\* conversion of the sentinel; for any other field value it is the epoch
\* conversion of the field.
C7_InsertionSentinel ==
  (Accessed("insertion_time")
     /\ cls \in {"InsertionRecord", "G5InsertionRecord"}) =>
    LET own == OwnSlice(out.record_counter)
        sys == Field32(own, 0)
        ins == Field32(own, 8)
    IN /\ acc.exc = ""
       /\ ins = U32(65535, 65535) =>
            /\ acc.val = ReceiverTimeToTime(sys)
            /\ sys # ins => acc.val # ReceiverTimeToTime(ins)
       /\ ins # U32(65535, 65535) => acc.val = ReceiverTimeToTime(ins)

C7_Witness ==
  /\ Accessed("insertion_time")
  /\ cls \in {"InsertionRecord", "G5InsertionRecord"}
  /\ Field32(OwnSlice(out.record_counter), 8) = U32(65535, 65535)
  /\ Field32(OwnSlice(out.record_counter), 0) # U32(65535, 65535)
  /\ acc.val = ReceiverTimeToTime(Field32(OwnSlice(out.record_counter), 0))

\* the three low bytes and the three high bytes of the 32-bit field at
\* 0-based offset off
Low24(b, off) == b[off + 1] + 256 * b[off + 2] + 65536 * b[off + 3]
High24(b, off) == b[off + 2] + 256 * b[off + 3] + 65536 * b[off + 4]

TestNumClasses == {"G5EGVRecord", "G6EGVRecord", "G5MeterRecord"}

\* C8 as stated: testNum of G5EGVRecord, G6EGVRecord and G5MeterRecord is
\* the raw 32-bit test-sequence field masked with 0x00FFFFFF.
C8_Original ==
  (Accessed("testNum") /\ cls \in TestNumClasses) =>
    acc.val = Low24(OwnSlice(out.record_counter), 15)

\* C8 amended: testNum of G5EGVRecord and G6EGVRecord is the raw field
\* masked with 0x00FFFFFF (its three low bytes); testNum of G5MeterRecord is
\* (raw >> 8) & 0xFFFFFF, the three high bytes of the field.
C8_TestNumBytes ==
  (Accessed("testNum") /\ cls \in TestNumClasses) =>
    /\ acc.exc = ""
    /\ cls \in {"G5EGVRecord", "G6EGVRecord"} =>
         acc.val = Low24(OwnSlice(out.record_counter), 15)
    /\ cls = "G5MeterRecord" =>
         acc.val = High24(OwnSlice(out.record_counter), 15)

\* raw 0x12FFFFFF read through G5MeterRecord.testNum gives 0x12FFFF
C8_Witness ==
  /\ Accessed("testNum")
  /\ cls = "G5MeterRecord"
  /\ Field32(OwnSlice(out.record_counter), 15) = U32(4863, 65535)
  /\ acc.val = 1245183

\* C9: for a class whose FORMAT is undefined, Create fails with
\* NotImplementedError (not CrcError) before the buffer is sliced, unpacked
\* or checksummed, for every page and record index.
C9_NoLayoutFailsFast ==
  (out.op = "Create"
     /\ cls \in {"BaseDatabaseRecord", "GenericTimestampedRecord"}) =>
    /\ out.exc = "NotImplementedError"
    /\ out.msg = <<"Subclasses need to define FORMAT", cls>>
    /\ out.steps = <<"_CheckFormat">>
    /\ out.crc_input = <<>>
    /\ out.ret = NoRecord

C9_Witness ==
  /\ Decoded
  /\ cls = "GenericTimestampedRecord"
  /\ out.record_counter > 0
  /\ dirty >= 0
  /\ out.exc = "NotImplementedError"
  /\ out.steps = <<"_CheckFormat">>

\* the timestamped classes decoded from a page
TimestampedClasses == PageClasses \ {"BaseDatabaseRecord", "GenericTimestampedRecord"}

\* what the time attributes of a record read when display_time is the
\* conversion of the 32-bit field at offset dispOff
TimesFrom(dispOff) ==
  LET own == OwnSlice(out.record_counter)
  IN acc.exc = "" =>
       /\ acc.name = "system_secs" => acc.val = Field32(own, 0)
       /\ acc.name = "display_secs" => acc.val = Field32(own, 4)
       /\ acc.name = "system_time" =>
            acc.val = ReceiverTimeToTime(Field32(own, 0))
       /\ acc.name = "display_time" =>
            acc.val = ReceiverTimeToTime(Field32(own, dispOff))
       /\ acc.name = "to_dict" =>
            /\ acc.val["system_time"] =
                 isoformat(ReceiverTimeToTime(Field32(own, 0)))
            /\ acc.val["display_time"] =
                 isoformat(ReceiverTimeToTime(Field32(own, dispOff)))

\* C10 as stated: for every timestamped class, system_time converts the
\* first decoded field and display_time (also in to_dict()) the second.
C10_Original ==
  (out.op = "Create" /\ out.exc = "" /\ cls \in TimestampedClasses) =>
    TimesFrom(4)

\* C10 amended: system_secs and display_secs are the first and second
\* decoded fields and system_time converts system_secs in every timestamped
\* class; display_time (also in to_dict()) converts display_secs in every
\* class but EventRecord, where it converts the fifth decoded field (the
\* one meter_secs returns).
C10_TimestampFields ==
  (out.op = "Create" /\ out.exc = "" /\ cls \in TimestampedClasses) =>
    IF cls = "EventRecord" THEN TimesFrom(10) ELSE TimesFrom(4)

C10_Witness ==
  /\ Accessed("to_dict")
  /\ cls = "EventRecord"
  /\ acc.exc = ""
  /\ Field32(OwnSlice(out.record_counter), 4)
       # Field32(OwnSlice(out.record_counter), 10)
  /\ acc.val["display_time"] =
       isoformat(ReceiverTimeToTime(Field32(OwnSlice(out.record_counter), 10)))

====
